---- MODULE Spec2Model ----
(***************************************************************************)
(* Model of src/backtest.py: the price download and column selection       *)
(* (_download_adj_close), the calendar alignment, the rebalance schedule,   *)
(* the day-by-day rebalancing walk (backtest_75_25) and the drawdown part   *)
(* of _compute_metrics.                                                     *)
(*                                                                         *)
(* Arithmetic.  The program computes in binary floating point.  The model  *)
(* computes the same expressions, in the same order, over exact rationals  *)
(* <<numerator, denominator>>; equalities of the model are therefore       *)
(* equalities of the real-number values of the program's expressions, and  *)
(* hold in the program up to floating-point rounding.                      *)
(*                                                                         *)
(* Dates are day ordinals: 0 is 2024-01-01, a Monday.                       *)
(***************************************************************************)
EXTENDS Integers, Sequences, FiniteSets, TLC

(***************************************************************************)
(* Exact rational arithmetic standing for Python float arithmetic.         *)
(***************************************************************************)
Abs(x) == IF x < 0 THEN -x ELSE x

RECURSIVE Gcd(_, _)
Gcd(a, b) == IF b = 0 THEN a ELSE Gcd(b, a % b)

Rat(n, d) ==
    LET g == Gcd(Abs(n), Abs(d))
        s == IF d < 0 THEN -1 ELSE 1
    IN  <<(s * n) \div g, (s * d) \div g>>

RInt(n) == <<n, 1>>

RZero == RInt(0)

ROne == RInt(1)

RNeg(a) == <<-a[1], a[2]>>

RAdd(a, b) ==
    LET g == Gcd(a[2], b[2])
    IN  Rat(a[1] * (b[2] \div g) + b[1] * (a[2] \div g), (a[2] \div g) * b[2])

RSub(a, b) == RAdd(a, RNeg(b))

RMul(a, b) ==
    LET g1 == Gcd(Abs(a[1]), b[2])
        g2 == Gcd(Abs(b[1]), a[2])
    IN  Rat((a[1] \div g1) * (b[1] \div g2), (a[2] \div g2) * (b[2] \div g1))

\* a / b for b # 0
RDiv(a, b) == RMul(a, Rat(b[2], b[1]))

RAbs(a) == <<Abs(a[1]), a[2]>>

RLt(a, b) == RSub(a, b)[1] < 0

RLe(a, b) == RSub(a, b)[1] <= 0

RIsNeg(a) == a[1] < 0

RIsPos(a) == a[1] > 0

(***************************************************************************)
(* The civil calendar of the dates the model uses (the years in Years).    *)
(***************************************************************************)
Years == 2024..2025

IsLeap(y) == (y % 4 = 0 /\ y % 100 # 0) \/ y % 400 = 0

DaysInMonth(y, m) ==
    IF m = 2 THEN (IF IsLeap(y) THEN 29 ELSE 28)
    ELSE IF m \in {4, 6, 9, 11} THEN 30 ELSE 31

DaysInYear(y) == IF IsLeap(y) THEN 366 ELSE 365

RECURSIVE DaysBeforeYear(_)
DaysBeforeYear(y) ==
    IF y \notin Years \/ y - 1 \notin Years THEN 0 ELSE DaysBeforeYear(y - 1) + DaysInYear(y - 1)

RECURSIVE DaysBeforeMonth(_, _)
DaysBeforeMonth(y, m) ==
    IF m <= 1 THEN 0 ELSE DaysBeforeMonth(y, m - 1) + DaysInMonth(y, m - 1)

\* the ordinal of the calendar day y-m-d
Ymd(y, m, d) == DaysBeforeYear(y) + DaysBeforeMonth(y, m) + (d - 1)

YearOf(t) ==
    CHOOSE y \in Years :
        DaysBeforeYear(y) <= t /\ t < DaysBeforeYear(y) + DaysInYear(y)

MonthOf(t) ==
    LET y == YearOf(t)
    IN  CHOOSE m \in 1..12 :
            Ymd(y, m, 1) <= t /\ t < Ymd(y, m, 1) + DaysInMonth(y, m)

\* 0 = Monday ... 6 = Sunday
WeekdayOf(t) == t % 7

QuarterEndMonth(m) == 3 * (((m - 1) \div 3) + 1)

(***************************************************************************)
(* pandas resample(rule): the label of the bin a timestamp falls in.  For  *)
(* the rules W, M, Q, A the bins are closed and labelled on the right: the *)
(* label is the calendar end of the period (W is W-SUN: the Sunday).       *)
(***************************************************************************)
Frequencies == {"W", "M", "Q", "A"}

PeriodEnd(rule, t) ==
    LET y == YearOf(t)
        m == MonthOf(t)
        q == QuarterEndMonth(m)
    IN  CASE rule = "W" -> t + (6 - WeekdayOf(t))
          [] rule = "M" -> Ymd(y, m, DaysInMonth(y, m))
          [] rule = "Q" -> Ymd(y, q, DaysInMonth(y, q))
          [] rule = "A" -> Ymd(y, 12, 31)

\* The labels of the periods from the one ending at label e to the one that
\* holds the date last.
RECURSIVE PeriodEndsTo(_, _, _)
PeriodEndsTo(rule, e, last) ==
    IF e >= last THEN {e}
    ELSE {e} \cup PeriodEndsTo(rule, PeriodEnd(rule, e + 1), last)

\* prices.resample(rule).last().index: one label per period from the period of
\* the first row to the period of the last row, empty periods included
ResampleIndex(rule, table) ==
    PeriodEndsTo(rule, PeriodEnd(rule, table[1].date), table[Len(table)].date)

(***************************************************************************)
(* The price provider (yf.download) and _download_adj_close.               *)
(*                                                                         *)
(* A response is [kind, cols, numeric, data]: kind is "none" (None),       *)
(* "series" (already a Series) or "frame" (a DataFrame); cols is the       *)
(* sequence of column labels, each a sequence of 1 to 3 strings (a plain   *)
(* label, or the tuple of a MultiIndex); numeric is the set of positions   *)
(* of the numeric columns; data[i] is column i, a set of observations      *)
(* [date, price, isnull].  Column labels of one frame are distinct.        *)
(***************************************************************************)
stock_ticker == "SPY"

crypto_ticker == "BTC-USD"

Tickers == {stock_ticker, crypto_ticker}

MinOf(S) == CHOOSE x \in S : \A y \in S : x <= y

\* data is None or data.empty
NoData(resp) ==
    \/ resp.kind = "none"
    \/ resp.kind = "frame" /\ Len(resp.cols) = 0
    \/ \E i \in 1..Len(resp.data) : resp.data[i] = {}

\* key in data.columns: a label of the columns' first level
InColumns(resp, key) == \E i \in 1..Len(resp.cols) : resp.cols[i][1] = key

\* data[key] followed by the reduction of a remaining DataFrame to one Series:
\* the first column under key one of whose remaining labels is the ticker,
\* else the first column under key
ReduceToSeries(ticker, resp, key) ==
    LET under == {i \in 1..Len(resp.cols) : resp.cols[i][1] = key}
        match == {i \in under :
                     \E k \in 2..Len(resp.cols[i]) : resp.cols[i][k] = ticker}
    IN  IF match # {} THEN MinOf(match) ELSE MinOf(under)

\* The column _download_adj_close takes as the price series: [err, col], col the
\* position of the column taken (1 for a response that is already a Series).
SelectColumn(ticker, resp) ==
    IF NoData(resp) THEN [err |-> "RuntimeError", col |-> 0]
    ELSE IF resp.kind = "series" THEN [err |-> "none", col |-> 1]
    ELSE IF InColumns(resp, "Adj Close")
         THEN [err |-> "none", col |-> ReduceToSeries(ticker, resp, "Adj Close")]
    ELSE IF InColumns(resp, "Close")
         THEN [err |-> "none", col |-> ReduceToSeries(ticker, resp, "Close")]
    ELSE IF resp.numeric # {}
         THEN [err |-> "none", col |-> MinOf(resp.numeric)]
    ELSE [err |-> "RuntimeError", col |-> 0]

\* series[~pd.isna(series)]
KeepNa(obs) == obs

DropNa(obs) == {o \in obs : ~o.isnull}

\* sort_index: the observations as a sequence in ascending date order
RECURSIVE SortIndex(_)
SortIndex(obs) ==
    IF obs = {} THEN <<>>
    ELSE LET o == CHOOSE x \in obs : \A y \in obs : x.date <= y.date
         IN  <<o>> \o SortIndex(obs \ {o})

\* _download_adj_close: [err, col, label, series]
DownloadAdjClose(ticker, resp) ==
    LET sel == SelectColumn(ticker, resp)
    IN  IF sel.err # "none"
        THEN [err |-> sel.err, col |-> 0, label |-> <<>>, series |-> <<>>]
        ELSE [err    |-> "none",
              col    |-> sel.col,
              label  |-> IF resp.kind = "frame" THEN resp.cols[sel.col] ELSE <<>>,
              series |-> SortIndex(DropNa(resp.data[sel.col]))]

(***************************************************************************)
(* Alignment: pd.concat([stock, crypto], axis=1).dropna() keeps the dates  *)
(* on which both series have a value, in ascending order.                  *)
(***************************************************************************)
SeriesDates(series) == {series[i].date : i \in 1..Len(series)}

PriceAt(series, t) ==
    LET i == CHOOSE j \in 1..Len(series) : series[j].date = t
    IN  series[i].price

RECURSIVE AlignRows(_, _, _)
AlignRows(stock, crypto, dates) ==
    IF dates = {} THEN <<>>
    ELSE LET t == MinOf(dates)
         IN  <<[date   |-> t,
                stock  |-> PriceAt(stock, t),
                crypto |-> PriceAt(crypto, t)]>>
             \o AlignRows(stock, crypto, dates \ {t})

AlignPrices(stock, crypto) ==
    AlignRows(stock, crypto, SeriesDates(stock) \cap SeriesDates(crypto))

(***************************************************************************)
(* backtest_75_25: the configuration check and the body of the walk.       *)
(* A configuration is [stock_weight, crypto_weight, fee_bps,               *)
(* initial_capital, rebalance_frequency], weights rational, fee_bps and    *)
(* initial_capital integers.                                               *)
(***************************************************************************)
\* np.isclose(a, b) with numpy's defaults: |a - b| <= atol + rtol * |b|,
\* atol = 1e-8, rtol = 1e-5
IsClose(a, b) ==
    RLe(RAbs(RSub(a, b)),
        RAdd(Rat(1, 100000000), RMul(Rat(1, 100000), RAbs(b))))

WeightsAccepted(c) == IsClose(RAdd(c.stock_weight, c.crypto_weight), ROne)

\* mutant: the fee taken as a percentage
FeeRatePercent(c) == Rat(c.fee_bps, 100)

\* fee_bps / 10_000.0
FeeRate(c) == Rat(c.fee_bps, 10000)

\* (timestamp in rebalance_dates) or is_first_day
IsRebalanceDay(dates, timestamp, is_first_day) ==
    timestamp \in dates \/ is_first_day

\* mutant: the whole desired position charged, the units held ignored
TradedNotionalGross(desired_units_stock, desired_units_crypto, us, uc, ps, pc) ==
    RAdd(RMul(RAbs(desired_units_stock), ps), RMul(RAbs(desired_units_crypto), pc))

\* abs(trade_units_stock) * price_stock + abs(trade_units_crypto) * price_crypto
TradedNotional(desired_units_stock, desired_units_crypto, us, uc, ps, pc) ==
    RAdd(RMul(RAbs(RSub(desired_units_stock, us)), ps),
         RMul(RAbs(RSub(desired_units_crypto, uc)), pc))

\* mutant: every rebalance starts from initial_capital
InvestableAlwaysCapital(c, is_first_day, pre) == RInt(c.initial_capital)

\* initial_capital if is_first_day else current_portfolio_value
InvestableBefore(c, is_first_day, pre) ==
    IF is_first_day THEN RInt(c.initial_capital) ELSE pre

\* mutant: the cost added instead of deducted
AfterFeesAdded(before, transaction_cost) == RAdd(before, transaction_cost)

\* investable_value_before_fees - transaction_cost
AfterFees(before, transaction_cost) == RSub(before, transaction_cost)

\* mutant: the check of the fee-adjusted base left out
CostsNeverExceed(after) == FALSE

\* investable_value_after_fees < 0: the iteration raises
CostsExceedValue(after) == RIsNeg(after)

\* mutant: each leg sized with the other leg's weight
TargetUnitsSwapped(after, weight, price) ==
    RDiv(RMul(after, RSub(ROne, weight)), price)

\* (investable_value_after_fees * weight) / price
TargetUnits(after, weight, price) == RDiv(RMul(after, weight), price)

\* value / current_portfolio_value if current_portfolio_value > 0 else 0.0
RealizedWeight(value, total) ==
    IF RIsPos(total) THEN RDiv(value, total) ELSE RZero

\* mutant: every row counted
CountEveryRow(n, is_rebalance_day) == n + 1

\* lines 208-209: num_rebalances += 1 on a rebalance day
CountRebalance(n, is_rebalance_day) == IF is_rebalance_day THEN n + 1 ELSE n

\* One iteration of the loop over prices.iterrows(): idx is the 1-based row
\* number, us and uc the units held coming into the day.  The result says
\* whether the iteration raised, and otherwise holds the appended record; the
\* intermediate values of a rebalance are kept beside it.
LoopBody(c, dates, idx, row, us, uc) ==
    LET ps  == RInt(row.stock)
        pc  == RInt(row.crypto)
        pre == RAdd(RMul(us, ps), RMul(uc, pc))
        is_first_day     == idx = 1
        is_rebalance_day == IsRebalanceDay(dates, row.date, is_first_day)
        before == InvestableBefore(c, is_first_day, pre)
        desired_units_stock  == RDiv(RMul(before, c.stock_weight), ps)
        desired_units_crypto == RDiv(RMul(before, c.crypto_weight), pc)
        traded_notional ==
            TradedNotional(desired_units_stock, desired_units_crypto, us, uc, ps, pc)
        transaction_cost == RMul(traded_notional, FeeRate(c))
        after  == AfterFees(before, transaction_cost)
        raised == is_rebalance_day /\ CostsExceedValue(after)
        nus == IF is_rebalance_day
               THEN TargetUnits(after, c.stock_weight, ps) ELSE us
        nuc == IF is_rebalance_day
               THEN TargetUnits(after, c.crypto_weight, pc) ELSE uc
        value_stock  == RMul(nus, ps)
        value_crypto == RMul(nuc, pc)
        total == RAdd(value_stock, value_crypto)
    IN  [raised  |-> raised,
         pre     |-> pre,
         before  |-> before,
         traded_notional  |-> traded_notional,
         transaction_cost |-> transaction_cost,
         after   |-> after,
         record  |-> [date            |-> row.date,
                      price_stock     |-> row.stock,
                      price_crypto    |-> row.crypto,
                      units_stock     |-> nus,
                      units_crypto    |-> nuc,
                      value_stock     |-> value_stock,
                      value_crypto    |-> value_crypto,
                      portfolio_value |-> total,
                      is_rebalance    |-> is_rebalance_day,
                      weight_stock    |-> RealizedWeight(value_stock, total),
                      weight_crypto   |-> RealizedWeight(value_crypto, total)]]

\* The walk over the first n rows as a function of the configuration: the
\* sequence of loop results, cut at the first iteration that raises.
RECURSIVE WalkTo(_, _, _, _)
WalkTo(c, dates, table, n) ==
    IF n = 0 THEN <<>>
    ELSE LET sofar == WalkTo(c, dates, table, n - 1)
         IN  IF Len(sofar) < n - 1 \/ (n > 1 /\ sofar[n - 1].raised)
             THEN sofar
             ELSE LET us == IF n = 1 THEN RZero ELSE sofar[n - 1].record.units_stock
                      uc == IF n = 1 THEN RZero ELSE sofar[n - 1].record.units_crypto
                  IN  Append(sofar, LoopBody(c, dates, n, table[n], us, uc))

(***************************************************************************)
(* _compute_metrics on a value series, a sequence of [date, value].  Of    *)
(* its outputs the model keeps final_value, total_return, the drawdown     *)
(* triple and num_rebalances; cagr, annual_volatility and sharpe_ratio are *)
(* irrational-valued outputs nothing else reads, and the model keeps only  *)
(* the exceptions their computation raises.                                *)
(***************************************************************************)
RMax(a, b) == IF RLt(a, b) THEN b ELSE a

\* portfolio_value.cummax() at position i
RECURSIVE RunningMax(_, _)
RunningMax(pv, i) ==
    IF i = 1 THEN pv[1].value ELSE RMax(RunningMax(pv, i - 1), pv[i].value)

\* (portfolio_value / running_max) - 1.0 at position i: a number, NaN (0/0)
\* or -inf (a negative value over a running maximum of 0)
Drawdown(pv, i) ==
    LET rm == RunningMax(pv, i)
    IN  IF rm[1] # 0
        THEN [kind |-> "num", val |-> RSub(RDiv(pv[i].value, rm), ROne)]
        ELSE IF pv[i].value[1] = 0
             THEN [kind |-> "nan", val |-> RZero]
             ELSE [kind |-> "neginf", val |-> RZero]

DrawdownLe(a, b) ==
    \/ a.kind = "neginf"
    \/ a.kind = "num" /\ b.kind = "num" /\ RLe(a.val, b.val)

\* drawdown.idxmin(): the first position of the least drawdown, NaN skipped;
\* 0 when every entry is NaN
DrawdownIdxMin(pv) ==
    LET valid == {i \in 1..Len(pv) : Drawdown(pv, i).kind # "nan"}
        least == {i \in valid :
                     \A j \in valid : DrawdownLe(Drawdown(pv, i), Drawdown(pv, j))}
    IN  IF valid = {} THEN 0 ELSE MinOf(least)

\* portfolio_value.loc[:mdd_end].idxmax(): the first position, up to and
\* including position last, of the greatest value
ValueIdxMax(pv, last) ==
    MinOf({i \in 1..last : \A j \in 1..last : RLe(pv[j].value, pv[i].value)})

NoMetrics ==
    [final_value |-> RZero, total_return |-> RZero,
     max_drawdown |-> [kind |-> "num", val |-> RZero],
     max_drawdown_start |-> -1, max_drawdown_end |-> -1, num_rebalances |-> 0]

\* [err, metrics].  The exceptions, in the order the code reaches them: the
\* empty series; final_value / 0.0; a negative float raised to a fractional
\* power is complex and float() rejects it; an all-zero series has an all-NaN
\* drawdown, whose idxmin is no date, and the slice up to it has no idxmax.
ComputeMetrics(pv, initial_capital, num_rebs) ==
    IF Len(pv) = 0
    THEN [err |-> "RuntimeError: empty portfolio value", metrics |-> NoMetrics]
    ELSE IF initial_capital = 0
    THEN [err |-> "ZeroDivisionError", metrics |-> NoMetrics]
    ELSE LET final_value == pv[Len(pv)].value
             ratio   == RDiv(final_value, RInt(initial_capital))
             mdd_end == DrawdownIdxMin(pv)
             mdd_start == ValueIdxMax(pv, mdd_end)
         IN  IF mdd_end = 0
             THEN [err |-> "ValueError: no drawdown date", metrics |-> NoMetrics]
             ELSE IF RIsNeg(ratio)
             THEN [err |-> "TypeError: complex cagr", metrics |-> NoMetrics]
             ELSE [err |-> "none",
                   metrics |->
                      [final_value  |-> final_value,
                       total_return |-> RSub(ratio, ROne),
                       max_drawdown |-> Drawdown(pv, mdd_end),
                       max_drawdown_start |-> pv[mdd_start].date,
                       max_drawdown_end   |-> pv[mdd_end].date,
                       num_rebalances     |-> num_rebs]]

(***************************************************************************)
(* The inputs the model draws: configurations and provider data.           *)
(***************************************************************************)
\* the most provider dates of one run
MaxDays == 3

\* 2024-01-31 (Wed, a month end), 2024-03-29 (Fri, the last weekday of a month
\* and quarter that end on a Sunday), 2024-03-31 (that Sunday), 2024-12-31
\* (Tue, a year end)
DateChoices ==
    {Ymd(2024, 1, 31), Ymd(2024, 3, 29), Ymd(2024, 3, 31), Ymd(2024, 12, 31)}

\* <<stock price, crypto price>>
PriceChoices == {<<100, 20000>>, <<110, 18000>>}

WeightChoices ==
    {<<Rat(3, 4), Rat(1, 4)>>, <<Rat(1, 1), Rat(0, 1)>>,
     <<Rat(3, 2), Rat(-1, 2)>>, <<Rat(1, 2), Rat(1, 4)>>}

FeeChoices == {-100, 0, 100, 10000, 20000}

CapitalChoices == {10000, 0}

Configs ==
    {[stock_weight |-> w[1], crypto_weight |-> w[2], fee_bps |-> f,
      initial_capital |-> k, rebalance_frequency |-> r] :
        w \in WeightChoices, f \in FeeChoices, k \in CapitalChoices,
        r \in Frequencies}

\* What the provider holds for one date: both prices, the stock price only, or
\* the stock price and a null crypto price.
DayKinds ==
    {[kind |-> "both", px |-> p] : p \in PriceChoices}
    \cup {[kind |-> k, px |-> <<100, 20000>>] : k \in {"stock_only", "crypto_nan"}}

Calendars == {D \in SUBSET DateChoices : Cardinality(D) <= MaxDays}

\* at most one date of a market lacks a crypto price
Markets ==
    UNION {{m \in [D -> DayKinds] :
               \A t, u \in D : (m[t].kind # "both" /\ m[u].kind # "both") => t = u} :
           D \in Calendars}

StockObs(m) ==
    {[date |-> t, price |-> m[t].px[1], isnull |-> FALSE] : t \in DOMAIN m}

CryptoObs(m) ==
    {[date |-> t, price |-> m[t].px[2], isnull |-> m[t].kind = "crypto_nan"] :
        t \in {u \in DOMAIN m : m[u].kind # "stock_only"}}

\* yf.download for one ticker over market m: a frame with the usual price
\* columns, Adj Close among them
PlainResponse(obs) ==
    [kind |-> "frame", cols |-> <<<<"Close">>, <<"Adj Close">>>>,
     numeric |-> {1, 2}, data |-> <<obs, obs>>]

MarketProvider(m) ==
    [t \in Tickers |->
        PlainResponse(IF t = stock_ticker THEN StockObs(m) ELSE CryptoObs(m))]

(***************************************************************************)
(* The state of one call of backtest_75_25.                                 *)
(***************************************************************************)
VARIABLES
    cfg,                \* the arguments of the call
    provider,           \* what yf.download returns for each ticker
    pc,                 \* where the call is; "raised" and "done" are final
    error,              \* the exception the call raised, "none" if none
    stock_prices,       \* result of _download_adj_close(stock_ticker)
    crypto_prices,      \* result of _download_adj_close(crypto_ticker)
    prices,             \* the aligned table
    rebalance_dates,
    idx,                \* rows walked so far
    units_stock,
    units_crypto,
    current_portfolio_value,
    num_rebalances,
    portfolio_records,
    trades,             \* history: the result of each iteration of the loop
    portfolio_value,    \* the value series handed to _compute_metrics
    result              \* the metrics of the returned BacktestResult

vars ==
    <<cfg, provider, pc, error, stock_prices, crypto_prices, prices,
      rebalance_dates, idx, units_stock, units_crypto, current_portfolio_value,
      num_rebalances, portfolio_records, trades, portfolio_value, result>>

NotDownloaded == [err |-> "none", col |-> 0, label |-> <<>>, series |-> <<>>]

Locals ==
    /\ stock_prices = NotDownloaded
    /\ crypto_prices = NotDownloaded
    /\ prices = <<>>
    /\ rebalance_dates = {}
    /\ idx = 0
    /\ units_stock = RZero
    /\ units_crypto = RZero
    /\ current_portfolio_value = RZero
    /\ num_rebalances = 0
    /\ portfolio_records = <<>>
    /\ trades = <<>>
    /\ portfolio_value = <<>>
    /\ result = NoMetrics

\* before the provider is asked, nothing is known of what it holds
Unasked ==
    [t \in Tickers |-> [kind |-> "none", cols |-> <<>>, numeric |-> {}, data |-> <<>>]]

Init ==
    /\ cfg \in Configs
    /\ provider = Unasked
    /\ pc = "start"
    /\ error = "none"
    /\ Locals

Raise(e) == pc' = "raised" /\ error' = e

TransactionCostError == "RuntimeError: transaction costs exceeded portfolio value"

\* lines 168-172: the only check of the arguments.  What the provider holds
\* is the environment's choice, made as the call turns to it.
Validate ==
    /\ pc = "start"
    /\ IF WeightsAccepted(cfg)
       THEN /\ pc' = "download_stock"
            /\ error' = error
            /\ \E m \in Markets : provider' = MarketProvider(m)
       ELSE /\ Raise("ValueError: stock_weight + crypto_weight must equal 1.0")
            /\ provider' = provider
    /\ UNCHANGED <<cfg, stock_prices, crypto_prices, prices,
                   rebalance_dates, idx, units_stock, units_crypto,
                   current_portfolio_value, num_rebalances, portfolio_records,
                   trades, portfolio_value, result>>

\* line 174
DownloadStock ==
    /\ pc = "download_stock"
    /\ LET got == DownloadAdjClose(stock_ticker, provider[stock_ticker])
       IN  IF got.err = "none"
           THEN stock_prices' = got /\ pc' = "download_crypto" /\ error' = error
           ELSE stock_prices' = stock_prices /\ Raise(got.err)
    /\ UNCHANGED <<cfg, provider, crypto_prices, prices, rebalance_dates, idx,
                   units_stock, units_crypto, current_portfolio_value,
                   num_rebalances, portfolio_records, trades, portfolio_value,
                   result>>

\* line 175
DownloadCrypto ==
    /\ pc = "download_crypto"
    /\ LET got == DownloadAdjClose(crypto_ticker, provider[crypto_ticker])
       IN  IF got.err = "none"
           THEN crypto_prices' = got /\ pc' = "align" /\ error' = error
           ELSE crypto_prices' = crypto_prices /\ Raise(got.err)
    /\ UNCHANGED <<cfg, provider, stock_prices, prices, rebalance_dates, idx,
                   units_stock, units_crypto, current_portfolio_value,
                   num_rebalances, portfolio_records, trades, portfolio_value,
                   result>>

\* lines 177-194: align, require two rows, derive the rebalance dates
Align ==
    /\ pc = "align"
    /\ LET table == AlignPrices(stock_prices.series, crypto_prices.series)
       IN  IF Len(table) < 2
           THEN /\ Raise("RuntimeError: insufficient overlapping price history")
                /\ UNCHANGED <<prices, rebalance_dates>>
           ELSE /\ prices' = table
                /\ rebalance_dates' = ResampleIndex(cfg.rebalance_frequency, table)
                /\ pc' = "walk"
                /\ error' = error
    /\ UNCHANGED <<cfg, provider, stock_prices, crypto_prices, idx, units_stock,
                   units_crypto, current_portfolio_value, num_rebalances,
                   portfolio_records, trades, portfolio_value, result>>

\* lines 196-259: one iteration of the loop
WalkStep ==
    /\ pc = "walk"
    /\ idx < Len(prices)
    /\ trades' = Append(trades, LoopBody(cfg, rebalance_dates, idx + 1,
                                         prices[idx + 1], units_stock, units_crypto))
    /\ LET step == trades'[Len(trades')]
       IN  /\ num_rebalances' =
                 CountRebalance(num_rebalances, step.record.is_rebalance)
           /\ IF step.raised
              THEN /\ Raise(TransactionCostError)
                   /\ current_portfolio_value' = step.pre
                   /\ UNCHANGED <<idx, units_stock, units_crypto, portfolio_records>>
              ELSE /\ idx' = idx + 1
                   /\ units_stock' = step.record.units_stock
                   /\ units_crypto' = step.record.units_crypto
                   /\ current_portfolio_value' = step.record.portfolio_value
                   /\ portfolio_records' = Append(portfolio_records, step.record)
                   /\ UNCHANGED <<pc, error>>
    /\ UNCHANGED <<cfg, provider, stock_prices, crypto_prices, prices,
                   rebalance_dates, portfolio_value, result>>

\* the records without the one at position k
RecordsWithout(recs, k) ==
    [i \in 1..(Len(recs) - 1) |-> IF i < k THEN recs[i] ELSE recs[i + 1]]

RECURSIVE SortRecordsDescending(_)
SortRecordsDescending(recs) ==
    IF Len(recs) = 0 THEN <<>>
    ELSE LET k == CHOOSE i \in 1..Len(recs) :
                      \A j \in 1..Len(recs) : recs[j].date <= recs[i].date
         IN  <<recs[k]>> \o SortRecordsDescending(RecordsWithout(recs, k))

\* line 261, set_index("date").sort_index(): the records in ascending date
\* order
RECURSIVE SortRecords(_)
SortRecords(recs) ==
    IF Len(recs) = 0 THEN <<>>
    ELSE LET k == CHOOSE i \in 1..Len(recs) :
                      \A j \in 1..Len(recs) : recs[i].date <= recs[j].date
         IN  <<recs[k]>> \o SortRecords(RecordsWithout(recs, k))

\* lines 261-262: the portfolio table and its value column
BuildPortfolio ==
    /\ pc = "walk"
    /\ idx = Len(prices)
    /\ LET portfolio == SortRecords(portfolio_records)
       IN  portfolio_value' =
              [i \in 1..Len(portfolio) |->
                  [date  |-> portfolio[i].date,
                   value |-> portfolio[i].portfolio_value]]
    /\ pc' = "metrics"
    /\ UNCHANGED <<cfg, provider, error, stock_prices, crypto_prices, prices,
                   rebalance_dates, idx, units_stock, units_crypto,
                   current_portfolio_value, num_rebalances, portfolio_records,
                   trades, result>>

\* lines 264-271: _compute_metrics and the return
Finish ==
    /\ pc = "metrics"
    /\ LET m == ComputeMetrics(portfolio_value, cfg.initial_capital, num_rebalances)
       IN  IF m.err = "none"
           THEN result' = m.metrics /\ pc' = "done" /\ error' = error
           ELSE result' = result /\ Raise(m.err)
    /\ UNCHANGED <<cfg, provider, stock_prices, crypto_prices, prices,
                   rebalance_dates, idx, units_stock, units_crypto,
                   current_portfolio_value, num_rebalances, portfolio_records,
                   trades, portfolio_value>>

Next ==
    \/ Validate
    \/ DownloadStock
    \/ DownloadCrypto
    \/ Align
    \/ WalkStep
    \/ BuildPortfolio
    \/ Finish

Spec == Init /\ [][Next]_vars

(***************************************************************************)
(* _compute_metrics alone, on value series drawn from a bounded set.       *)
(***************************************************************************)
\* the longest value series drawn
MaxLen == 3

ValueChoices == {-100, -50, 0, 80, 90, 100}

DefaultConfig ==
    [stock_weight |-> Rat(3, 4), crypto_weight |-> Rat(1, 4), fee_bps |-> 10,
     initial_capital |-> 10000, rebalance_frequency |-> "M"]

\* the series with the values vs on consecutive days from 2024-01-01
ValueSeries(vs) ==
    [i \in 1..Len(vs) |-> [date |-> Ymd(2024, 1, i), value |-> RInt(vs[i])]]

InitMetrics ==
    /\ cfg = DefaultConfig
    /\ provider = Unasked
    /\ error = "none"
    /\ pc = "metrics"
    /\ stock_prices = NotDownloaded
    /\ crypto_prices = NotDownloaded
    /\ prices = <<>>
    /\ rebalance_dates = {}
    /\ idx = 0
    /\ units_stock = RZero
    /\ units_crypto = RZero
    /\ current_portfolio_value = RZero
    /\ num_rebalances \in {1, 2}
    /\ portfolio_records = <<>>
    /\ trades = <<>>
    /\ \E n \in 1..MaxLen : \E vs \in [1..n -> ValueChoices] :
          portfolio_value = ValueSeries(vs)
    /\ result = NoMetrics

SpecMetrics == InitMetrics /\ [][Finish]_vars

(***************************************************************************)
(* _download_adj_close alone, on provider responses of every layout: plain *)
(* labels, (field, ticker) tuples and (ticker, field) tuples.              *)
(***************************************************************************)
\* the most columns of a response
MaxCols == 2

FieldLabels == {"Adj Close", "Close", "Open"}

TickerLabels == {"SPY", "BTC-USD", "QQQ"}

ColumnLabels ==
    {<<f>> : f \in FieldLabels}
    \cup {<<f, t>> : f \in FieldLabels, t \in TickerLabels}
    \cup {<<t, f>> : t \in TickerLabels, f \in FieldLabels}

\* column sequences: distinct labels, all with the same number of levels
ColumnLayouts ==
    UNION {{cs \in [1..n -> ColumnLabels] :
               /\ \A i, j \in 1..n : i # j => cs[i] # cs[j]
               /\ \A i, j \in 1..n : Len(cs[i]) = Len(cs[j])
               /\ \A i, j \in 1..n :
                     (cs[i][1] \in FieldLabels) = (cs[j][1] \in FieldLabels)} :
           n \in 0..MaxCols}

\* column i of a drawn response: one observation, the price telling the
\* columns apart
ColumnObs(i) == {[date |-> Ymd(2024, 1, 31), price |-> 100 + i, isnull |-> FALSE]}

Responses ==
    {[kind |-> "frame", cols |-> cs,
      numeric |-> IF num THEN 1..Len(cs) ELSE {},
      data |-> [i \in 1..Len(cs) |-> ColumnObs(i)]] :
        cs \in ColumnLayouts, num \in BOOLEAN}
    \cup {[kind |-> "series", cols |-> <<>>, numeric |-> {}, data |-> <<ColumnObs(1)>>],
          [kind |-> "none", cols |-> <<>>, numeric |-> {}, data |-> <<>>]}

InitDownload ==
    /\ cfg = DefaultConfig
    /\ \E r \in Responses : provider = [t \in Tickers |-> r]
    /\ error = "none"
    /\ pc = "download_stock"
    /\ Locals

NextDownload == DownloadStock \/ DownloadCrypto

SpecDownload == InitDownload /\ [][NextDownload]_vars

(***************************************************************************)
(* Properties.                                                             *)
(***************************************************************************)
TableDates == {prices[i].date : i \in 1..Len(prices)}

\* row i is the last aligned row of its calendar period
LastRowOfPeriod(i) ==
    \A j \in (i + 1)..Len(prices) :
        PeriodEnd(cfg.rebalance_frequency, prices[j].date)
            # PeriodEnd(cfg.rebalance_frequency, prices[i].date)

\* the configurations the documented contract admits
DocumentedConfig ==
    /\ WeightsAccepted(cfg)
    /\ cfg.fee_bps >= 0
    /\ cfg.initial_capital > 0

\* C1: under every policy, the last aligned trading day of each calendar
\* period that has an aligned row is a rebalance day: its snapshot and its
\* trade record are flagged, so it is counted in num_rebalances.
C1_PeriodLastDayRebalances ==
    DocumentedConfig =>
        \A i \in 1..Len(portfolio_records) :
            LastRowOfPeriod(i) =>
                portfolio_records[i].is_rebalance /\ trades[i].record.is_rebalance

\* C2: every date of rebalance_dates is the date of a row of the aligned
\* table.
C2_ScheduleWithinTable ==
    DocumentedConfig => rebalance_dates \subseteq TableDates

\* The scenario of C3: rows (d0, 100, 20000), (d1, 110, 18000) in different
\* months, weights 0.75/0.25, capital 10000, monthly policy.
Scenario ==
    /\ cfg.stock_weight = Rat(3, 4)
    /\ cfg.crypto_weight = Rat(1, 4)
    /\ cfg.initial_capital = 10000
    /\ cfg.rebalance_frequency = "M"
    /\ Len(prices) = 2
    /\ prices[1].stock = 100 /\ prices[1].crypto = 20000
    /\ prices[2].stock = 110 /\ prices[2].crypto = 18000
    /\ MonthOf(prices[1].date) # MonthOf(prices[2].date)

\* the same run with fee_bps = 0
FeeFreeWalk ==
    WalkTo([cfg EXCEPT !.fee_bps = 0], rebalance_dates, prices, Len(prices))

\* C3 as stated: in the scenario at 100 bps, the pre-trade value on d1 is
\* still 10500, and the value after d1's rebalance is strictly less than in
\* the fee-free run.
C3_PreTradeValueUnchanged ==
    (Scenario /\ cfg.fee_bps = 100 /\ Len(portfolio_records) = 2) =>
        /\ trades[2].pre = RInt(10500)
        /\ RLt(portfolio_records[2].portfolio_value,
               FeeFreeWalk[2].record.portfolio_value)

\* C3 amended: in the scenario the fee-free pre-trade value on d1 is 10500; at
\* 100 bps it is 10395, the first day's rebalance having paid 100 on the
\* 10000 it traded; and the value emitted for d1 is strictly less than in the
\* fee-free run: 10387.575 when d1 is a rebalance day, 10395 when it is not.
C3_FeeLowersPreTradeValue ==
    (Scenario /\ cfg.fee_bps = 100 /\ Len(portfolio_records) = 2) =>
        /\ FeeFreeWalk[2].pre = RInt(10500)
        /\ trades[2].pre = RInt(10395)
        /\ RLt(portfolio_records[2].portfolio_value,
               FeeFreeWalk[2].record.portfolio_value)
        /\ portfolio_records[2].portfolio_value =
              IF portfolio_records[2].is_rebalance
              THEN Rat(415503, 40) ELSE RInt(10395)

C3_Witness ==
    /\ Scenario
    /\ cfg.fee_bps = 100
    /\ Len(portfolio_records) = 2
    /\ portfolio_records[2].is_rebalance

WeightsSumToOne == RAdd(cfg.stock_weight, cfg.crypto_weight) = ROne

\* C4 as stated: with fee_bps = 0 and weights summing to 1, on every row
\* flagged is_rebalance the emitted value equals the pre-trade value of the
\* units held coming into the day.
C4_ValueConservedEveryRebalance ==
    (DocumentedConfig /\ cfg.fee_bps = 0 /\ WeightsSumToOne) =>
        \A i \in 1..Len(portfolio_records) :
            portfolio_records[i].is_rebalance =>
                portfolio_records[i].portfolio_value = trades[i].pre

\* C4 amended: with fee_bps = 0 and weights summing to 1, on every rebalance
\* row after the first the emitted value equals the pre-trade value; on the
\* first row, where no units are held, it equals initial_capital.
C4_ValueConservedAfterFirstDay ==
    (cfg.fee_bps = 0 /\ WeightsSumToOne) =>
        \A i \in 1..Len(portfolio_records) :
            portfolio_records[i].is_rebalance =>
                portfolio_records[i].portfolio_value =
                    IF i = 1 THEN RInt(cfg.initial_capital) ELSE trades[i].pre

C4_Witness ==
    /\ cfg.fee_bps = 0
    /\ WeightsSumToOne
    /\ \E i \in 2..Len(portfolio_records) :
          /\ portfolio_records[i].is_rebalance
          /\ trades[i].traded_notional # RZero
          /\ RIsPos(trades[i].pre)

\* C5: a configuration whose weights do not sum to 1, whose fee is negative
\* or whose capital is not positive is rejected with the configuration
\* error before anything is downloaded, and no snapshot is recorded for it.
C5_InvalidConfigRejectedFirst ==
    ~DocumentedConfig =>
        /\ pc \in {"start", "raised"}
        /\ pc = "raised" =>
              error = "ValueError: stock_weight + crypto_weight must equal 1.0"
        /\ stock_prices = NotDownloaded
        /\ crypto_prices = NotDownloaded
        /\ portfolio_records = <<>>

\* position of the date t in the value series
PositionOf(t) ==
    CHOOSE i \in 1..Len(portfolio_value) : portfolio_value[i].date = t

\* positions up to last at which the value equals its running maximum
PeakPositions(last) ==
    {i \in 1..last : portfolio_value[i].value = RunningMax(portfolio_value, i)}

MaxOf(S) == CHOOSE x \in S : \A y \in S : y <= x

\* C6: for a non-empty positive value series, max_drawdown_start is the last
\* date at or before max_drawdown_end on which the value equals its running
\* maximum (the latest of several dates attaining the peak).
C6_DrawdownStartIsLastPeak ==
    (/\ pc = "done"
     /\ \A i \in 1..Len(portfolio_value) : RIsPos(portfolio_value[i].value)) =>
        result.max_drawdown_start =
            portfolio_value[
                MaxOf(PeakPositions(PositionOf(result.max_drawdown_end)))].date

C12_OneSnapshotPerRow ==
    pc = "done" =>
        /\ idx = Len(prices)
        /\ Len(trades) = Len(prices)
        /\ Len(portfolio_records) = Len(prices)
        /\ Len(portfolio_value) = Len(prices)
        /\ \A i \in 1..Len(prices) :
              /\ portfolio_records[i].date = prices[i].date
              /\ portfolio_value[i].date = prices[i].date
        /\ \A i \in 1..(Len(portfolio_value) - 1) :
              portfolio_value[i].date < portfolio_value[i + 1].date

C12_Witness ==
    /\ pc = "done"
    /\ Len(prices) = MaxDays
    /\ Len(portfolio_value) = MaxDays
    /\ \E i \in 1..Len(trades) : ~trades[i].record.is_rebalance

\* the dates on which the provider holds a non-null price for the ticker
NonNullDates(ticker) ==
    LET resp == provider[ticker]
    IN  IF Len(resp.data) = 0 THEN {}
        ELSE {o.date : o \in {x \in resp.data[Len(resp.data)] : ~x.isnull}}

BothDates == NonNullDates(stock_ticker) \cap NonNullDates(crypto_ticker)

\* alignment has produced a table
Aligned == pc \in {"walk", "metrics", "done"} \/ (pc = "raised" /\ prices # <<>>)

DataErrors ==
    {"RuntimeError", "RuntimeError: insufficient overlapping price history"}

\* C13: alignment either fails with a data error or yields a table of at
\* least 2 rows, strictly increasing by date, whose dates are exactly those on
\* which both series have a non-null price; whenever a series is empty or
\* fewer than 2 dates are shared the run fails with a data error and no
\* simulation step runs.
C13_AlignmentExactOrFails ==
    /\ Aligned =>
          /\ Len(prices) >= 2
          /\ \A i \in 1..(Len(prices) - 1) : prices[i].date < prices[i + 1].date
          /\ TableDates = BothDates
          /\ \A i \in 1..Len(prices) :
                /\ prices[i].stock = PriceAt(stock_prices.series, prices[i].date)
                /\ prices[i].crypto = PriceAt(crypto_prices.series, prices[i].date)
    /\ (provider # Unasked /\ Cardinality(BothDates) < 2) =>
          /\ ~Aligned
          /\ trades = <<>> /\ idx = 0 /\ portfolio_records = <<>>
          /\ pc = "raised" => error \in DataErrors
    /\ (pc = "raised" /\ error \in DataErrors) =>
          Cardinality(BothDates) < 2 /\ trades = <<>>

\* a table of two rows made from three provider dates, one of them with a
\* null crypto price
C13_Witness ==
    /\ Aligned
    /\ Len(prices) = 2
    /\ Cardinality(NonNullDates(stock_ticker)) = 3
    /\ \E o \in provider[crypto_ticker].data[1] : o.isnull

\* C14: over an aligned table of exactly 2 rows with weights 1.0 and 0.0 the
\* emitted values are those of holding the stable asset alone: row 0 is worth
\* initial_capital * (1 - fee), row 1 that amount times
\* stable_price[1] / stable_price[0] whether or not it is a rebalance day, and
\* the volatile leg's units and value are 0 on both rows.
C14_AllStableIsBuyAndHold ==
    (/\ Len(prices) = 2
     /\ cfg.stock_weight = ROne
     /\ cfg.crypto_weight = RZero) =>
        LET first == RMul(RInt(cfg.initial_capital), RSub(ROne, FeeRate(cfg)))
            held  == RDiv(RMul(first, RInt(prices[2].stock)), RInt(prices[1].stock))
        IN  \A i \in 1..Len(portfolio_records) :
               /\ portfolio_records[i].units_crypto = RZero
               /\ portfolio_records[i].value_crypto = RZero
               /\ portfolio_records[i].value_stock = portfolio_records[i].portfolio_value
               /\ portfolio_records[i].portfolio_value = IF i = 1 THEN first ELSE held

\* both rows emitted under a positive fee, the prices different and row 1 a
\* rebalance day
C14_Witness ==
    /\ Len(prices) = 2
    /\ cfg.stock_weight = ROne
    /\ cfg.crypto_weight = RZero
    /\ cfg.fee_bps = 100
    /\ cfg.initial_capital > 0
    /\ Len(portfolio_records) = 2
    /\ portfolio_records[2].is_rebalance
    /\ prices[1].stock # prices[2].stock

\* C15: in every snapshot emitted by a run the entry point accepts, the units
\* held in the stable asset and in the volatile asset are both non-negative.
C15_UnitsNonNegative ==
    \A i \in 1..Len(portfolio_records) :
        /\ ~RIsNeg(portfolio_records[i].units_stock)
        /\ ~RIsNeg(portfolio_records[i].units_crypto)

\* the units held coming into row i
UnitsBefore(i) ==
    IF i = 1 THEN [stock |-> RZero, crypto |-> RZero]
    ELSE [stock  |-> trades[i - 1].record.units_stock,
          crypto |-> trades[i - 1].record.units_crypto]

\* row i rebalanced as the documented step does: the base, the notional
\* traded from the units held before, the cost, the new units and the closing
\* value; on the first row also N = initial_capital and the closing value
\* initial_capital * (1 - fee)
StepAsDocumented(i) ==
    LET r    == trades[i].record
        ps   == RInt(r.price_stock)
        pv   == RInt(r.price_crypto)
        held == UnitsBefore(i)
        fee  == Rat(cfg.fee_bps, 10000)
        B    == IF i = 1 THEN RInt(cfg.initial_capital)
                ELSE RAdd(RMul(held.stock, ps), RMul(held.crypto, pv))
        N    == RAdd(RMul(RAbs(RSub(RDiv(RMul(B, cfg.stock_weight), ps), held.stock)), ps),
                     RMul(RAbs(RSub(RDiv(RMul(B, cfg.crypto_weight), pv), held.crypto)), pv))
        cost == RMul(N, fee)
    IN  /\ trades[i].before = B
        /\ trades[i].traded_notional = N
        /\ trades[i].transaction_cost = cost
        /\ r.units_stock = RDiv(RMul(RSub(B, cost), cfg.stock_weight), ps)
        /\ r.units_crypto = RDiv(RMul(RSub(B, cost), cfg.crypto_weight), pv)
        /\ r.portfolio_value = RSub(B, cost)
        /\ i = 1 =>
              /\ N = RInt(cfg.initial_capital)
              /\ r.portfolio_value =
                    RMul(RInt(cfg.initial_capital), RSub(ROne, fee))
              /\ (/\ cfg.fee_bps = 0
                  /\ cfg.initial_capital = 10000
                  /\ cfg.stock_weight = Rat(3, 4)
                  /\ cfg.crypto_weight = Rat(1, 4)
                  /\ r.price_stock = 100
                  /\ r.price_crypto = 20000) =>
                    r.units_stock = RInt(75) /\ r.units_crypto = Rat(1, 8)

\* C16: every rebalance day computes base, traded notional, cost, new units
\* and closing value B - cost as documented; on the first row the traded
\* notional is initial_capital and the closing value
\* initial_capital * (1 - fee), with units 75 and 0.125 in the fee-free
\* scenario.
C16_RebalanceStep ==
    \A i \in 1..Len(trades) :
        (trades[i].record.is_rebalance /\ ~trades[i].raised) => StepAsDocumented(i)

RebalanceRows == {i \in 1..Len(portfolio_records) : portfolio_records[i].is_rebalance}

\* C17: a row that is not a rebalance day keeps both unit counts of the
\* previous snapshot and is worth units_stable * stable_price +
\* units_volatile * volatile_price at its own prices; unit counts change only
\* on rows flagged is_rebalance; row 0 is flagged, and the num_rebalances of
\* the metrics is the number of flagged rows, at least 1.
C17_HoldBetweenRebalances ==
    /\ \A i \in 1..Len(portfolio_records) :
          LET r == portfolio_records[i]
          IN  /\ i = 1 => r.is_rebalance
              /\ i > 1 =>
                    LET q == portfolio_records[i - 1]
                    IN  /\ ~r.is_rebalance =>
                              /\ r.units_stock = q.units_stock
                              /\ r.units_crypto = q.units_crypto
                              /\ r.portfolio_value =
                                    RAdd(RMul(q.units_stock, RInt(r.price_stock)),
                                         RMul(q.units_crypto, RInt(r.price_crypto)))
                        /\ (r.units_stock # q.units_stock
                              \/ r.units_crypto # q.units_crypto) => r.is_rebalance
    /\ pc = "done" =>
          /\ result.num_rebalances = Cardinality(RebalanceRows)
          /\ result.num_rebalances >= 1

\* a completed run of three rows, the middle one held at changed prices, the
\* last one rebalanced
C17_Witness ==
    /\ pc = "done"
    /\ Len(portfolio_records) = 3
    /\ ~portfolio_records[2].is_rebalance
    /\ portfolio_records[2].price_stock # portfolio_records[1].price_stock
    /\ portfolio_records[3].is_rebalance
    /\ result.num_rebalances = 2

\* the outcome of the whole call under fee f: the loop results and the
\* metrics of the rows' values
OutcomeAt(f) ==
    LET c    == [cfg EXCEPT !.fee_bps = f]
        walk == WalkTo(c, rebalance_dates, prices, Len(prices))
        done == Len(walk) = Len(prices) /\ ~walk[Len(walk)].raised
        pv   == [i \in 1..Len(walk) |->
                    [date |-> walk[i].record.date,
                     value |-> walk[i].record.portfolio_value]]
        m    == ComputeMetrics(pv, c.initial_capital, 0)
    IN  [completes |-> done /\ m.err = "none",
         final_value |-> IF done THEN m.metrics.final_value ELSE RZero]

SomeNotionalTraded ==
    \E i \in 1..Len(trades) :
        trades[i].record.is_rebalance /\ trades[i].traded_notional # RZero

\* C7: of two completed runs that differ only in the fee, f1 < f2, with some
\* rebalance of nonzero traded notional, the run at f2 ends with a final
\* value no greater than the run at f1.
C7_FeeMonotone ==
    (pc = "done" /\ SomeNotionalTraded) =>
        \A f \in FeeChoices :
            (cfg.fee_bps < f /\ OutcomeAt(f).completes) =>
                RLe(OutcomeAt(f).final_value, result.final_value)

C7_Witness ==
    /\ pc = "done"
    /\ SomeNotionalTraded
    /\ cfg.fee_bps >= 0
    /\ Len(portfolio_records) > 2
    /\ \E f \in FeeChoices :
          /\ cfg.fee_bps < f
          /\ OutcomeAt(f).completes
          /\ RLt(OutcomeAt(f).final_value, result.final_value)

\* C8 as stated: on every snapshot of a rebalance day the realized weights
\* equal the target weights, for every accepted fee and price path.
C8_RealizedWeightsAreTargets ==
    DocumentedConfig =>
        \A i \in 1..Len(portfolio_records) :
            portfolio_records[i].is_rebalance =>
                /\ portfolio_records[i].weight_stock = cfg.stock_weight
                /\ portfolio_records[i].weight_crypto = cfg.crypto_weight

\* C8 amended: on every snapshot of a rebalance day whose post-trade value is
\* positive the realized weights equal the target weights; when the
\* fee-adjusted base, and so the post-trade value, is 0 (a fee of 10000 bps
\* on the first day), both realized weights are 0.
C8_RealizedWeightsUnlessWorthless ==
    \A i \in 1..Len(portfolio_records) :
        portfolio_records[i].is_rebalance =>
            IF RIsPos(portfolio_records[i].portfolio_value)
            THEN /\ portfolio_records[i].weight_stock = cfg.stock_weight
                 /\ portfolio_records[i].weight_crypto = cfg.crypto_weight
            ELSE /\ trades[i].after = RZero
                 /\ portfolio_records[i].portfolio_value = RZero
                 /\ portfolio_records[i].weight_stock = RZero
                 /\ portfolio_records[i].weight_crypto = RZero

C8_Witness ==
    /\ cfg.fee_bps > 0
    /\ cfg.stock_weight = Rat(3, 4)
    /\ \E i \in 2..Len(portfolio_records) :
          /\ portfolio_records[i].is_rebalance
          /\ trades[i].traded_notional # RZero
          /\ RIsPos(portfolio_records[i].portfolio_value)
          /\ portfolio_records[i].weight_stock = Rat(3, 4)

\* C9: a rebalance whose fee-adjusted base is negative ends the call with
\* the simulation error: that row and the rows after it get no snapshot, no
\* value series is built and no metrics are returned; so every rebalance
\* snapshot has a fee-adjusted base, and a post-trade value, that is >= 0.
C9_NegativeBaseAborts ==
    /\ \A i \in 1..Len(trades) :
          (trades[i].record.is_rebalance /\ RIsNeg(trades[i].after)) =>
              /\ i = Len(trades)
              /\ pc = "raised"
              /\ error = TransactionCostError
              /\ Len(portfolio_records) = i - 1
              /\ portfolio_value = <<>>
              /\ result = NoMetrics
    /\ \A i \in 1..Len(portfolio_records) :
          portfolio_records[i].is_rebalance =>
              /\ ~RIsNeg(trades[i].after)
              /\ portfolio_records[i].portfolio_value = trades[i].after
              /\ ~RIsNeg(portfolio_records[i].portfolio_value)

C9_Witness ==
    /\ pc = "raised"
    /\ error = TransactionCostError
    /\ Len(trades) = Len(portfolio_records) + 1
    /\ RIsNeg(trades[Len(trades)].after)

\* the columns of resp one of whose labels is the price field it offers:
\* "Adj Close" if some column has it, else "Close"
PriceCandidates(resp) ==
    LET has(f) == {i \in 1..Len(resp.cols) :
                      \E k \in 1..Len(resp.cols[i]) : resp.cols[i][k] = f}
    IN  IF has("Adj Close") # {} THEN has("Adj Close") ELSE has("Close")

\* no price column, or several of them and none labelled with the ticker
NoSeriesFor(ticker, resp) ==
    /\ resp.kind = "frame"
    /\ ~NoData(resp)
    /\ \/ PriceCandidates(resp) = {}
       \/ /\ Cardinality(PriceCandidates(resp)) > 1
          /\ \A i \in PriceCandidates(resp) :
                \A k \in 1..Len(resp.cols[i]) : resp.cols[i][k] # ticker

\* C10: when the response for the stock ticker has no adjusted-close or close
\* column, or several candidates none of which matches the ticker, the
\* download raises: no column is taken as the price series.
C10_NoSilentFallback ==
    NoSeriesFor(stock_ticker, provider[stock_ticker]) =>
        stock_prices = NotDownloaded

====
